---- MODULE Spec2Model ----
(***************************************************************************)
(* A model of the iconfont MCP server: the IconfontService (session        *)
(* cookie, project-detail cache, remote operations), the tool handlers     *)
(* that call it, and the IconfontLoginService (browser login polling).     *)
(*                                                                         *)
(* Strings the code inspects (cookies, set-cookie headers) are sequences   *)
(* of symbols; the symbol EGG stands for the text "EGG_SESS_ICONFONT=".    *)
(* Time is Date.now() in milliseconds.                                     *)
(***************************************************************************)
EXTENDS Integers, Sequences, FiniteSets, TLC

VARIABLES
  cookie,     \* IconfontService.cookie
  loggedIn,   \* IconfontService.loggedIn
  cache,      \* IconfontService.projectDetailCache: a function on the keys present
  now,        \* Date.now()
  calls,      \* the service calls suspended at their axios await, per slot
  ev,         \* what the last step did for its caller (request sent / value returned)
  lg,         \* the auto-login tool call: its IconfontLoginService and where it stands
  cleared     \* clearCache ran and no project-detail call has looked up the cache since

vars == <<cookie, loggedIn, cache, now, calls, ev, lg, cleared>>

----------------------------------------------------------------------------
(* Values *)

EGG == "EGG_SESS_ICONFONT="

\* JS undefined, for an optional argument that was not passed
Undefined == <<"undefined">>

\* the values a caller passes for a cookie: "", "a", "EGG_SESS_ICONFONT=a"
StoredTokens == {<<>>, <<"a">>, <<EGG, "a">>}

\* the values a caller passes as a per-call override cookie
OverrideTokens == {Undefined, <<>>, <<"b">>}

Pids == {"p1", "p2"}
NoPid == "-"

\* the updated_at stamps the remote side gives a project record
Versions == {1, 2}

\* how many times the clock advances
MaxTicks == 3

Slots == {1}

\* two tool invocations in flight at once
RaceSlots == {1, 2}

\* how many times the clock advances while calls overlap
MaxRaceTicks == 2

cacheMaxAge == 5 * 60 * 1000

\* the clock advances in thirds of the cache max age
CoarseStep == cacheMaxAge \div 3

\* JS truthiness of a string-or-undefined value
Truthy(s) == s # Undefined /\ s # <<>>

StartsWith(s, p) == Len(s) >= Len(p) /\ SubSeq(s, 1, Len(p)) = p

----------------------------------------------------------------------------
(* Session store *)

\* constructor(cookie?): cookie || process.env.ICONFONT_COOKIE || ""
Constructed(seed) ==
  /\ cookie = (IF Truthy(seed) THEN seed ELSE <<>>)
  /\ loggedIn = Truthy(cookie)

\* a stored cookie that wins over the override
getEffectiveCookie_StoredFirst(overrideCookie, stored) ==
  IF Truthy(stored) THEN stored ELSE overrideCookie

getEffectiveCookie(overrideCookie, stored) ==
  IF Truthy(overrideCookie) THEN overrideCookie ELSE stored

\* the Cookie header of getHeaders (the other headers are constants)
getHeaders(overrideCookie, stored) ==
  LET c == getEffectiveCookie(overrideCookie, stored)
      cookieValue == IF StartsWith(c, <<EGG>>) THEN c ELSE <<EGG>> \o c
  IN  IF Truthy(c) THEN cookieValue ELSE Undefined

\* a setCookie that stores the token without its cookie name
setCookie_ValueOnly(c) ==
  [cookie |-> IF StartsWith(c, <<EGG>>) THEN Tail(c) ELSE c, loggedIn |-> TRUE]

\* setCookie: the session after it
setCookie(c) == [cookie |-> c, loggedIn |-> TRUE]

\* getCookie, of the stored token c
getCookie(c) == c

getLoginStatus(c, l) == [t |-> "status", loggedIn |-> l, hasCookie |-> Truthy(c)]

----------------------------------------------------------------------------
(* Results and remote responses *)

Ok(v) == [kind |-> "ok", val |-> v, err |-> "none"]
Err(e) == [kind |-> "err", val |-> [t |-> "none"], err |-> e]
NoRes == [kind |-> "none", val |-> [t |-> "none"], err |-> "none"]

AuthRequired == "Authentication required"
AuthFailed == "Authentication failed"
TimedOut == "Request timed out"
Failed == "Failed"

Detail(pid, v) == [t |-> "detail", id |-> pid, updated_at |-> v]
List(n) == [t |-> "list", n |-> n]
Null == [t |-> "null"]

\* what axios gives back: a 2xx body, an HTTP error status, a timeout
\* (ECONNABORTED) or another network error.  A 2xx body is "none" (no data),
\* "noproject" (data without a project record) or "full".
Responses ==
  [t : {"ok"}, body : {"none", "noproject"}, status : {200}, ver : {0}]
    \cup [t : {"ok"}, body : {"full"}, status : {200}, ver : Versions]
    \cup [t : {"http"}, body : {"none"}, status : {401, 403, 500}, ver : {0}]
    \cup [t : {"timeout", "neterr"}, body : {"none"}, status : {0}, ver : {0}]

IsAuthStatus(r) == r.t = "http" /\ r.status \in {401, 403}

----------------------------------------------------------------------------
(* The service operations *)

Ops == {"searchIcons", "getIconDetail", "listProjects", "getProjectIcons",
        "getProjectDetail", "searchProjectIcons"}

\* the operations that take an override cookie
OverrideOps == {"listProjects", "getProjectDetail", "searchProjectIcons"}

\* the operations that take a project id
PidOps == {"getProjectIcons", "getProjectDetail", "searchProjectIcons"}

\* a precheck that takes any override that was passed, "" too, as a credential
PreCheckFails_UndefinedOnly(op, overrideCookie, stored) ==
  CASE op \in OverrideOps -> overrideCookie = Undefined /\ ~Truthy(stored)
    [] op = "getProjectIcons" -> ~Truthy(stored)
    [] OTHER -> FALSE

\* the cookie each operation tests before its request; Undefined-free:
\* searchIcons and getIconDetail test nothing
PreCheckFails(op, overrideCookie, stored) ==
  CASE op \in OverrideOps -> ~Truthy(getEffectiveCookie(overrideCookie, stored))
    [] op = "getProjectIcons" -> ~Truthy(stored)
    [] OTHER -> FALSE

\* an entry still fresh at exactly the max age
IsFresh_Inclusive(cached, t) == t - cached.timestamp <= cacheMaxAge

\* getProjectDetail: cacheAge < this.cacheMaxAge
IsFresh(cached, t) == t - cached.timestamp < cacheMaxAge

\* a lookup that does not look at forceRefresh
CacheHit_IgnoresForce(c, pid, forceRefresh, t) ==
  /\ pid \in DOMAIN c
  /\ t - c[pid].timestamp < cacheMaxAge

\* getProjectDetail: the cached record to return without a request, if any
CacheHit(c, pid, forceRefresh, t) ==
  /\ ~forceRefresh
  /\ pid \in DOMAIN c
  /\ IsFresh(c[pid], t)

\* the try/catch of each operation, applied to what axios gave back
HandleResponse(op, pid, r) ==
  IF r.t = "ok"
  THEN CASE op = "getProjectDetail" ->
              IF r.body = "full" THEN Ok(Detail(pid, r.ver)) ELSE Err(Failed)
         [] op = "getIconDetail" ->
              IF r.body = "none" THEN Ok(Null) ELSE Ok(List(1))
         [] OTHER ->
              IF r.body = "none" THEN Ok(List(0)) ELSE Ok(List(1))
  ELSE CASE op = "searchIcons" ->
              IF IsAuthStatus(r) THEN Err(AuthFailed)
              ELSE IF r.t = "timeout" THEN Err(TimedOut) ELSE Err(Failed)
         [] op \in OverrideOps ->
              IF IsAuthStatus(r) THEN Err(AuthFailed) ELSE Err(Failed)
         [] OTHER -> Err(Failed)

\* a set that keeps the entry a key already has
MapSet_FirstWins(c, k, e) ==
  [x \in DOMAIN c \cup {k} |-> IF x = k /\ k \notin DOMAIN c THEN e ELSE c[x]]

\* Map.set
MapSet(c, k, e) == [x \in DOMAIN c \cup {k} |-> IF x = k THEN e ELSE c[x]]

EmptyMap == [k \in {} |-> 0]

\* a failed refresh that drops the entry it could not refresh
CacheAfter_EvictOnFailure(c, op, pid, r, t) ==
  IF op # "getProjectDetail" THEN c
  ELSE IF r.t = "ok" /\ r.body = "full"
  THEN MapSet(c, pid, [data |-> Detail(pid, r.ver), timestamp |-> t,
                       updatedAt |-> r.ver])
  ELSE [x \in DOMAIN c \ {pid} |-> c[x]]

\* getProjectDetail: the cache after the response; t is the `now` the call
\* read before its request
CacheAfter(c, op, pid, r, t) ==
  IF op = "getProjectDetail" /\ r.t = "ok" /\ r.body = "full"
  THEN MapSet(c, pid, [data |-> Detail(pid, r.ver), timestamp |-> t,
                       updatedAt |-> r.ver])
  ELSE c

----------------------------------------------------------------------------
(* Steps *)

IdleCall == [pc |-> "idle", op |-> "-", pid |-> NoPid, force |-> FALSE, now |-> 0]

NoResp == [t |-> "none", body |-> "none", status |-> 0, ver |-> 0]

\* act is "send" (a request went out and the call suspended), "return" (a
\* value or an error went back to the caller) or "none"; sent tells whether
\* the call issued a request, resp is the response a returning call handled,
\* arg is the token the login tool was given
NoEv == [act |-> "none", op |-> "-", pid |-> NoPid, override |-> Undefined,
         force |-> FALSE, hdr |-> Undefined, sent |-> FALSE, resp |-> NoResp,
         res |-> NoRes, arg |-> Undefined]

\* a service operation that looks up the cache before it checks the token
Call_LookupFirst(s, op, pid, overrideCookie, forceRefresh) ==
  /\ calls[s].pc = "idle"
  /\ \A s2 \in DOMAIN calls : s2 < s => calls[s2].pc # "idle"
  /\ LET e == [NoEv EXCEPT !.act = "return", !.op = op, !.pid = pid,
                              !.override = overrideCookie, !.force = forceRefresh]
     IN  IF op = "getProjectDetail" /\ CacheHit(cache, pid, forceRefresh, now)
         THEN /\ ev' = [e EXCEPT !.res = Ok(cache[pid].data)]
              /\ UNCHANGED calls
         ELSE IF PreCheckFails(op, overrideCookie, cookie)
         THEN /\ ev' = [e EXCEPT !.res = Err(AuthRequired)]
              /\ UNCHANGED calls
         ELSE /\ ev' = [e EXCEPT !.act = "send", !.sent = TRUE,
                                 !.hdr = getHeaders(overrideCookie, cookie)]
              /\ calls' = [calls EXCEPT ![s] =
                             [pc |-> "awaiting", op |-> op, pid |-> pid,
                              force |-> forceRefresh, now |-> now]]
  /\ cleared' = (cleared /\ (op # "getProjectDetail"
                            \/ PreCheckFails(op, overrideCookie, cookie)))
  /\ UNCHANGED <<cookie, loggedIn, cache, now, lg>>

\* a service operation that keeps the override it was given as the stored
\* token
Call_StoresOverride(s, op, pid, overrideCookie, forceRefresh) ==
  /\ calls[s].pc = "idle"
  /\ \A s2 \in DOMAIN calls : s2 < s => calls[s2].pc # "idle"
  /\ LET e == [NoEv EXCEPT !.act = "return", !.op = op, !.pid = pid,
                              !.override = overrideCookie, !.force = forceRefresh]
     IN  IF PreCheckFails(op, overrideCookie, cookie)
         THEN /\ ev' = [e EXCEPT !.res = Err(AuthRequired)]
              /\ UNCHANGED calls
         ELSE IF op = "getProjectDetail" /\ CacheHit(cache, pid, forceRefresh, now)
         THEN /\ ev' = [e EXCEPT !.res = Ok(cache[pid].data)]
              /\ UNCHANGED calls
         ELSE /\ ev' = [e EXCEPT !.act = "send", !.sent = TRUE,
                                 !.hdr = getHeaders(overrideCookie, cookie)]
              /\ calls' = [calls EXCEPT ![s] =
                             [pc |-> "awaiting", op |-> op, pid |-> pid,
                              force |-> forceRefresh, now |-> now]]
  /\ cookie' = getEffectiveCookie(overrideCookie, cookie)
  /\ cleared' = (cleared /\ (op # "getProjectDetail"
                            \/ PreCheckFails(op, overrideCookie, cookie)))
  /\ UNCHANGED <<loggedIn, cache, now, lg>>

\* a service operation up to its first await: it returns at once (failed
\* precheck, cache hit) or sends its request and suspends
Call(s, op, pid, overrideCookie, forceRefresh) ==
  /\ calls[s].pc = "idle"
  /\ \A s2 \in DOMAIN calls : s2 < s => calls[s2].pc # "idle"
  /\ LET e == [NoEv EXCEPT !.act = "return", !.op = op, !.pid = pid,
                              !.override = overrideCookie, !.force = forceRefresh]
     IN  IF PreCheckFails(op, overrideCookie, cookie)
         THEN /\ ev' = [e EXCEPT !.res = Err(AuthRequired)]
              /\ UNCHANGED calls
         ELSE IF op = "getProjectDetail" /\ CacheHit(cache, pid, forceRefresh, now)
         THEN /\ ev' = [e EXCEPT !.res = Ok(cache[pid].data)]
              /\ UNCHANGED calls
         ELSE /\ ev' = [e EXCEPT !.act = "send", !.sent = TRUE,
                                 !.hdr = getHeaders(overrideCookie, cookie)]
              /\ calls' = [calls EXCEPT ![s] =
                             [pc |-> "awaiting", op |-> op, pid |-> pid,
                              force |-> forceRefresh, now |-> now]]
  /\ cleared' = (cleared /\ (op # "getProjectDetail"
                            \/ PreCheckFails(op, overrideCookie, cookie)))
  /\ UNCHANGED <<cookie, loggedIn, cache, now, lg>>

\* a completion that also stamps the entries it did not fetch with the
\* time of its own call
Respond_TouchesEntries(s, r) ==
  /\ calls[s].pc = "awaiting"
  /\ LET c == calls[s]
         after == CacheAfter(cache, c.op, c.pid, r, c.now)
     IN  /\ cache' = [x \in DOMAIN after |-> [after[x] EXCEPT !.timestamp = c.now]]
         /\ ev' = [NoEv EXCEPT !.act = "return", !.op = c.op, !.pid = c.pid,
                                !.force = c.force, !.sent = TRUE, !.resp = r,
                                !.res = HandleResponse(c.op, c.pid, r)]
  /\ calls' = [calls EXCEPT ![s] = IdleCall]
  /\ UNCHANGED <<cookie, loggedIn, now, lg, cleared>>

\* the rest of a service operation, once axios has settled
Respond(s, r) ==
  /\ calls[s].pc = "awaiting"
  /\ LET c == calls[s]
     IN  /\ cache' = CacheAfter(cache, c.op, c.pid, r, c.now)
         /\ ev' = [NoEv EXCEPT !.act = "return", !.op = c.op, !.pid = c.pid,
                                !.force = c.force, !.sent = TRUE, !.resp = r,
                                !.res = HandleResponse(c.op, c.pid, r)]
  /\ calls' = [calls EXCEPT ![s] = IdleCall]
  /\ UNCHANGED <<cookie, loggedIn, now, lg, cleared>>

CallAny ==
  \E s \in DOMAIN calls, op \in Ops :
    \E pid \in (IF op \in PidOps THEN Pids ELSE {NoPid}),
       o \in (IF op \in OverrideOps THEN OverrideTokens ELSE {Undefined}),
       f \in (IF op = "getProjectDetail" THEN BOOLEAN ELSE {FALSE}) :
      Call(s, op, pid, o, f)

RespondAny == \E s \in DOMAIN calls, r \in Responses : Respond(s, r)

Tick(d) ==
  /\ now + d <= MaxTicks * CoarseStep
  /\ now' = now + d
  /\ ev' = NoEv
  /\ UNCHANGED <<cookie, loggedIn, cache, calls, lg, cleared>>

TickCoarse == Tick(CoarseStep)

\* the timeout every request of the service is sent with
RequestTimeout == 30000

RequestStep == RequestTimeout \div 3

\* the clock while requests are in flight: a request settles before its
\* timeout has elapsed since the call read the clock
TickRequest ==
  /\ now + RequestStep <= MaxRaceTicks * RequestStep
  /\ \A s \in DOMAIN calls :
       calls[s].pc = "awaiting" => now + RequestStep < calls[s].now + RequestTimeout
  /\ now' = now + RequestStep
  /\ ev' = NoEv
  /\ UNCHANGED <<cookie, loggedIn, cache, calls, lg, cleared>>

\* getProjectDetail with the stored token, on any free slot
CallDetailAny ==
  \E s \in DOMAIN calls, pid \in Pids, f \in BOOLEAN :
    Call(s, "getProjectDetail", pid, Undefined, f)

\* the iconfont_login tool: service.setCookie(params.cookie), then the status
Login(c) ==
  /\ cookie' = setCookie(c).cookie
  /\ loggedIn' = setCookie(c).loggedIn
  /\ ev' = [NoEv EXCEPT !.act = "return", !.op = "login", !.arg = c,
                        !.res = Ok(getLoginStatus(cookie', loggedIn'))]
  /\ UNCHANGED <<cache, now, calls, lg, cleared>>

\* IconfontLoginSchema: cookie is z.string(), any string
LoginAny == \E c \in StoredTokens : Login(c)

\* the iconfont_check_login tool
CheckLogin ==
  /\ ev' = [NoEv EXCEPT !.act = "return", !.op = "checkLogin",
                        !.res = Ok(getLoginStatus(cookie, loggedIn))]
  /\ UNCHANGED <<cookie, loggedIn, cache, now, calls, lg, cleared>>

\* clearCache
ClearCache ==
  /\ cache' = EmptyMap
  /\ ev' = [NoEv EXCEPT !.act = "return", !.op = "clearCache"]
  /\ cleared' = TRUE
  /\ UNCHANGED <<cookie, loggedIn, now, calls, lg>>

----------------------------------------------------------------------------
(* IconfontLoginService and the iconfont_auto_login tool *)

LOGIN_CHECK_INTERVAL == 3000

\* waitForCookieFromApiWithPrompt: the wait before its first probe
GraceWait == 5000

\* the timeout of one probe request (axios timeout)
ProbeTimeout == 5000

\* the timeout the iconfont_auto_login tool passes to waitForLogin
LoginTimeout == 120000

\* the login clock advances in thirds of the polling interval
FineStep == LOGIN_CHECK_INTERVAL \div 3

OpenFailed == "Failed to open browser"
LoginTimedOut == "Login timeout"
CookiesFailed == "page.cookies failed"

\* a startLogin that lets the puppeteer error out
startLogin_NoFallback(fails, sysOk) ==
  [browser |-> fails # "launch",
   page |-> fails \in {"none", "goto"},
   sys |-> "no",
   threw |-> fails # "none"]

\* startLogin: `fails` is the puppeteer step that throws ("none", "launch",
\* "newPage", "goto"), sysOk whether `open <url>` succeeds when it is tried.
\* The fields are this.browser and this.page being non-null, whether
\* openBrowserWithSystem ran, and whether startLogin threw.
startLogin(fails, sysOk) ==
  [browser |-> fails # "launch",
   page |-> fails \in {"none", "goto"},
   sys |-> IF fails = "none" THEN "no" ELSE IF sysOk THEN "ok" ELSE "fail",
   threw |-> fails # "none" /\ ~sysOk]

\* close(): browser.close() runs only when this.browser is set
close(l) ==
  IF l.browser
  THEN [l EXCEPT !.browser = FALSE, !.page = FALSE, !.closes = l.closes + 1]
  ELSE l

isRunning(l) == l.browser

\* a loop that polls once more when exactly the timeout has elapsed
LoopContinues_Inclusive(startTime, t, timeout) == t - startTime <= timeout

\* the test of both polling loops: Date.now() - startTime < timeout
LoopContinues(startTime, t, timeout) == t - startTime < timeout

RECURSIVE Join(_, _)
\* Array.join
Join(ss, sep) ==
  IF Len(ss) = 0 THEN <<>>
  ELSE IF Len(ss) = 1 THEN ss[1]
  ELSE ss[1] \o <<sep>> \o Join(Tail(ss), sep)

RECURSIVE Split(_, _)
\* String.split on a one-symbol separator
Split(str, sep) ==
  IF \E i \in 1..Len(str) : str[i] = sep
  THEN LET i == CHOOSE k \in 1..Len(str) :
                  str[k] = sep /\ \A j \in 1..(k - 1) : str[j] # sep
       IN  <<SubSeq(str, 1, i - 1)>> \o Split(SubSeq(str, i + 1, Len(str)), sep)
  ELSE <<str>>

RECURSIVE TrimStart(_)
TrimStart(str) == IF Len(str) > 0 /\ str[1] = " " THEN TrimStart(Tail(str)) ELSE str

RECURSIVE TrimEnd(_)
TrimEnd(str) ==
  IF Len(str) > 0 /\ str[Len(str)] = " " THEN TrimEnd(SubSeq(str, 1, Len(str) - 1)) ELSE str

\* String.trim
Trim(str) == TrimEnd(TrimStart(str))

\* String.replace(sym, ""): the first occurrence goes
Replace(str, sym) ==
  IF \E i \in 1..Len(str) : str[i] = sym
  THEN LET i == CHOOSE k \in 1..Len(str) :
                  str[k] = sym /\ \A j \in 1..(k - 1) : str[j] # sym
       IN  SubSeq(str, 1, i - 1) \o SubSeq(str, i + 1, Len(str))
  ELSE str

\* waitForCookieFromApiWithPrompt: the cookie value read from the set-cookie
\* headers of a probe response (hs: the header's strings)
ParseSetCookie(hs) ==
  LET cookieStr == Join(hs, ",")
      parts == Split(cookieStr, ",")
      hits == {i \in 1..Len(parts) : StartsWith(Trim(parts[i]), <<EGG>>)}
  IN  IF hits = {}
      THEN [found |-> FALSE, value |-> <<>>]
      ELSE LET first == CHOOSE i \in hits : \A j \in hits : i <= j
           IN  [found |-> TRUE, value |-> Replace(Split(parts[first], ";")[1], EGG)]

\* what a probe request gives back: an error (network error, timeout, HTTP
\* error status), a response without set-cookie headers, or one with them
ProbeOutcomes ==
  [t : {"error", "noheader"}, hs : {<<>>}]
    \cup [t : {"headers"},
          hs : { << <<"ctoken=", "v", ";", " ", "path">> >>,
                 << <<EGG, "v", ";", " ", "path">> >>,
                 << <<EGG, ";", " ", "path">> >>,
                 << <<"ctoken=", "v">>, <<EGG, "v", ",", "w", ";", " ", "path">> >> }]

\* what page.cookies() gives for the session cookie: it throws, there is no
\* such cookie, or the cookie's value
JarOutcomes ==
  [t : {"throws", "absent"}, value : {<<>>}]
    \cup [t : {"cookie"}, value : {<<>>, <<"c">>}]

NewLogin ==
  [pc |-> "idle", browser |-> FALSE, page |-> FALSE,
   startTime |-> 0, deadline |-> 0, probeStart |-> 0,
   \* what happened, for the record
   fails |-> "none", sys |-> "no", acquired |-> FALSE, closes |-> 0,
   strategy |-> "none", entered |-> 0, outcome |-> "none", err |-> "none",
   token |-> <<>>, doneAt |-> 0]

\* the handler's catch: await loginService.close(), then the error text
HandlerCatch(l, e, t) ==
  [close(l) EXCEPT !.pc = "done", !.outcome = "error", !.err = e, !.doneAt = t]

\* the handler after waitForLogin returned c: the login instance
HandlerReturned(l, c, t) ==
  [l EXCEPT !.pc = "done", !.token = c, !.doneAt = t,
            !.outcome = IF Truthy(c) THEN "success" ELSE "timeoutText"]

\* a handler that stores whatever waitForLogin returned
SessionAfterLogin_Unconditional(c, stored, flag) == setCookie(c)

\* the handler after waitForLogin returned c: the session
SessionAfterLogin(c, stored, flag) ==
  IF Truthy(c) THEN setCookie(c) ELSE [cookie |-> stored, loggedIn |-> flag]

\* the tool is called: new IconfontLoginService(), startLogin(), and
\* waitForLogin(120000) up to its first await
AutoLoginStart(fails, sysOk) ==
  /\ lg.pc = "idle"
  /\ LET st == startLogin(fails, sysOk)
         l == [NewLogin EXCEPT !.browser = st.browser, !.page = st.page,
                               !.fails = fails, !.sys = st.sys,
                               !.acquired = st.browser, !.entered = now]
     IN  lg' = IF st.threw
               THEN HandlerCatch(l, OpenFailed, now)
               ELSE IF ~l.page
               THEN [l EXCEPT !.pc = "grace", !.strategy = "probe",
                              !.deadline = now + GraceWait]
               ELSE IF LoopContinues(now, now, LoginTimeout)
               THEN [l EXCEPT !.pc = "poll", !.strategy = "jar", !.startTime = now]
               ELSE HandlerCatch([close(l) EXCEPT !.strategy = "jar", !.startTime = now],
                                 LoginTimedOut, now)
  /\ ev' = NoEv
  /\ UNCHANGED <<cookie, loggedIn, cache, now, calls, cleared>>

\* a cookie-jar loop that polls again at once instead of waiting the interval
PollCookies_NoSleep(jar) ==
  /\ lg.pc = "poll"
  /\ IF jar.t = "throws"
     THEN /\ lg' = HandlerCatch(lg, CookiesFailed, now)
          /\ UNCHANGED <<cookie, loggedIn>>
     ELSE IF jar.t = "cookie" /\ Truthy(jar.value)
     THEN /\ lg' = HandlerReturned(close(lg), jar.value, now)
          /\ cookie' = SessionAfterLogin(jar.value, cookie, loggedIn).cookie
          /\ loggedIn' = SessionAfterLogin(jar.value, cookie, loggedIn).loggedIn
     ELSE UNCHANGED <<lg, cookie, loggedIn>>
  /\ ev' = NoEv
  /\ UNCHANGED <<cache, now, calls, cleared>>

\* waitForLogin, scriptable browser: page.cookies() settles
PollCookies(jar) ==
  /\ lg.pc = "poll"
  /\ IF jar.t = "throws"
     THEN /\ lg' = HandlerCatch(lg, CookiesFailed, now)
          /\ UNCHANGED <<cookie, loggedIn>>
     ELSE IF jar.t = "cookie" /\ Truthy(jar.value)
     THEN /\ lg' = HandlerReturned(close(lg), jar.value, now)
          /\ cookie' = SessionAfterLogin(jar.value, cookie, loggedIn).cookie
          /\ loggedIn' = SessionAfterLogin(jar.value, cookie, loggedIn).loggedIn
     ELSE /\ lg' = [lg EXCEPT !.pc = "sleep", !.deadline = now + LOGIN_CHECK_INTERVAL]
          /\ UNCHANGED <<cookie, loggedIn>>
  /\ ev' = NoEv
  /\ UNCHANGED <<cache, now, calls, cleared>>

\* waitForLogin, scriptable browser: the interval timer fires
SleepDone ==
  /\ lg.pc = "sleep"
  /\ now >= lg.deadline
  /\ lg' = IF LoopContinues(lg.startTime, now, LoginTimeout)
           THEN [lg EXCEPT !.pc = "poll"]
           ELSE HandlerCatch(close(lg), LoginTimedOut, now)
  /\ ev' = NoEv
  /\ UNCHANGED <<cookie, loggedIn, cache, now, calls, cleared>>

\* the next probe, or the timeout, of waitForCookieFromApiWithPrompt's loop
ProbeLoop(l, t) ==
  IF LoopContinues(l.startTime, t, LoginTimeout)
  THEN [l EXCEPT !.pc = "probe", !.probeStart = t]
  ELSE HandlerCatch(l, LoginTimedOut, t)

\* waitForCookieFromApiWithPrompt: the 5000 ms timer fires
GraceDone ==
  /\ lg.pc = "grace"
  /\ now >= lg.deadline
  /\ lg' = ProbeLoop([lg EXCEPT !.startTime = now], now)
  /\ ev' = NoEv
  /\ UNCHANGED <<cookie, loggedIn, cache, now, calls, cleared>>

\* waitForCookieFromApiWithPrompt: the probe request settles
ProbeResponse(r) ==
  /\ lg.pc = "probe"
  /\ LET p == ParseSetCookie(r.hs)
     IN  IF r.t = "headers" /\ p.found
         THEN /\ lg' = HandlerReturned(lg, p.value, now)
              /\ cookie' = SessionAfterLogin(p.value, cookie, loggedIn).cookie
              /\ loggedIn' = SessionAfterLogin(p.value, cookie, loggedIn).loggedIn
         ELSE /\ lg' = [lg EXCEPT !.pc = "fsleep",
                                  !.deadline = now + LOGIN_CHECK_INTERVAL]
              /\ UNCHANGED <<cookie, loggedIn>>
  /\ ev' = NoEv
  /\ UNCHANGED <<cache, now, calls, cleared>>

\* waitForCookieFromApiWithPrompt: the interval timer fires
FSleepDone ==
  /\ lg.pc = "fsleep"
  /\ now >= lg.deadline
  /\ lg' = ProbeLoop(lg, now)
  /\ ev' = NoEv
  /\ UNCHANGED <<cookie, loggedIn, cache, now, calls, cleared>>

TimerPending == lg.pc \in {"sleep", "fsleep", "grace"}

\* the clock while a login waits: a due timer fires before the clock moves
\* on, and a probe settles within its timeout
TickFine ==
  /\ TimerPending \/ lg.pc = "probe"
  /\ TimerPending => now < lg.deadline
  /\ lg.pc = "probe" => now + FineStep <= lg.probeStart + ProbeTimeout
  /\ now' = now + FineStep
  /\ ev' = NoEv
  /\ UNCHANGED <<cookie, loggedIn, cache, calls, lg, cleared>>

AutoLoginStartAny ==
  \E fails \in {"none", "launch", "newPage", "goto"}, sysOk \in BOOLEAN :
    AutoLoginStart(fails, sysOk)

PollCookiesAny == \E jar \in JarOutcomes : PollCookies(jar)

ProbeResponseAny == \E r \in ProbeOutcomes : ProbeResponse(r)

----------------------------------------------------------------------------
(* Specifications *)

Init ==
  /\ \E seed \in StoredTokens \cup {Undefined} : Constructed(seed)
  /\ cache = EmptyMap
  /\ now = 0
  /\ calls = [s \in Slots |-> IdleCall]
  /\ ev = NoEv
  /\ lg = NewLogin
  /\ cleared = FALSE

\* the service: session, cache, remote operations, the login tools
Next == CallAny \/ RespondAny \/ TickCoarse \/ LoginAny \/ CheckLogin \/ ClearCache

Spec == Init /\ [][Next]_vars

\* one auto-login attempt on the millisecond clock, beside the login tools
NextLogin ==
  \/ AutoLoginStartAny
  \/ PollCookiesAny
  \/ SleepDone
  \/ GraceDone
  \/ ProbeResponseAny
  \/ FSleepDone
  \/ TickFine
  \/ LoginAny
  \/ CheckLogin

SpecLogin == Init /\ [][NextLogin]_vars

\* the same, every pending timer firing, every request and cookie-jar read
\* settling, and the clock advancing while something waits for it
SpecLoginFair ==
  /\ SpecLogin
  /\ WF_vars(PollCookiesAny)
  /\ WF_vars(SleepDone)
  /\ WF_vars(GraceDone)
  /\ WF_vars(ProbeResponseAny)
  /\ WF_vars(FSleepDone)
  /\ WF_vars(TickFine)

\* project-detail calls overlapping each other, the login tool and clearCache
InitRace ==
  /\ \E seed \in StoredTokens \cup {Undefined} : Constructed(seed)
  /\ cache = EmptyMap
  /\ now = 0
  /\ calls = [s \in RaceSlots |-> IdleCall]
  /\ ev = NoEv
  /\ lg = NewLogin
  /\ cleared = FALSE

NextRace == CallDetailAny \/ RespondAny \/ TickRequest \/ LoginAny \/ ClearCache

SpecRace == InitRace /\ [][NextRace]_vars

----------------------------------------------------------------------------
(* Properties of the service, under Spec *)

\* the last step was a service call up to its first await
IsCallStep == ev.act = "send" \/ (ev.act = "return" /\ ~ev.sent /\ ev.op \in Ops)

\* the last step was a service call returning after its request settled
IsCompletion == ev.act = "return" /\ ev.sent

\* the token the contract makes effective
ExpectedToken(overrideCookie, stored) ==
  IF overrideCookie # Undefined /\ Len(overrideCookie) > 0 THEN overrideCookie ELSE stored

\* C1: in listProjects, getProjectDetail and searchProjectIcons the effective
\* token is the override when that is a non-empty string and the stored token
\* otherwise: the call is refused as unauthenticated exactly when that token is
\* empty, and a request that goes out carries that token as its session cookie.
C1_CredentialPrecedence ==
  (IsCallStep /\ ev.op \in OverrideOps) =>
    LET eff == ExpectedToken(ev.override, cookie)
    IN  /\ (ev.res = Err(AuthRequired)) <=> (eff = <<>>)
        /\ ev.act = "send" =>
             ev.hdr = (IF Len(eff) > 0 /\ eff[1] = EGG THEN eff ELSE <<EGG>> \o eff)

\* an override was sent although a different token is stored
C1_Witness ==
  /\ ev.act = "send" /\ ev.op = "listProjects"
  /\ ev.override = <<"b">> /\ cookie = <<"a">>
  /\ ev.hdr = <<EGG, "b">>

\* C2: the logged-in flag is true exactly when the stored token is non-empty.
C2_SessionInvariant == loggedIn <=> (cookie # <<>>)

\* C3: a project-detail call without forced refresh and with a non-empty
\* effective token sends a request exactly when the project has no cache entry
\* or the entry is 300000 ms old or older; otherwise it returns the cached
\* record itself.
C3_CacheFreshness ==
  (IsCallStep /\ ev.op = "getProjectDetail" /\ ~ev.force
     /\ ExpectedToken(ev.override, cookie) # <<>>) =>
    /\ ev.sent <=> (ev.pid \notin DOMAIN cache \/ now - cache[ev.pid].timestamp >= 300000)
    /\ ~ev.sent => ev.res = Ok(cache[ev.pid].data)

\* a record fetched 200000 ms ago was returned without a request
C3_Witness ==
  /\ IsCallStep /\ ev.op = "getProjectDetail" /\ ~ev.sent /\ ev.res.kind = "ok"
  /\ now - cache[ev.pid].timestamp = 200000

\* C4: a project-detail call with forceRefresh = true and a non-empty effective
\* token always sends a request, and when that request succeeds the project's
\* cache entry holds the record just fetched.
C4_ForcedRefresh ==
  /\ (IsCallStep /\ ev.op = "getProjectDetail" /\ ev.force
        /\ ExpectedToken(ev.override, cookie) # <<>>) => ev.act = "send"
  /\ (IsCompletion /\ ev.op = "getProjectDetail" /\ ev.force /\ ev.res.kind = "ok") =>
       /\ ev.pid \in DOMAIN cache
       /\ cache[ev.pid].data = ev.res.val

\* a forced call sent its request although a fresh entry was there
C4_Witness ==
  /\ ev.act = "send" /\ ev.op = "getProjectDetail" /\ ev.force
  /\ ev.pid \in DOMAIN cache
  /\ now - cache[ev.pid].timestamp < 300000

\* the request of a project-detail call failed: an HTTP error, a network
\* error or timeout, or a body without the project record
RemoteFailed(r) == r.t # "ok" \/ r.body # "full"

\* C5: when the request of a project-detail call fails, the call fails with
\* an error and the step leaves the cache as it was.
C5_NoPartialWrite ==
  [][(ev'.act = "return" /\ ev'.sent /\ ev'.op = "getProjectDetail"
        /\ RemoteFailed(ev'.resp))
       => (ev'.res.kind = "err" /\ cache' = cache)]_vars

\* a refresh of a stale entry failed and the entry is still there
C5_Witness ==
  /\ IsCompletion /\ ev.op = "getProjectDetail" /\ ev.res.kind = "err"
  /\ ev.pid \in DOMAIN cache
  /\ now - cache[ev.pid].timestamp >= 300000

\* C6: listProjects, getProjectDetail and searchProjectIcons called with an
\* empty stored token and no or an empty override fail with the
\* authentication-required error, send nothing, and change neither the session
\* nor the cache.
C6_AuthPrecheck ==
  [][((ev'.act = "send" \/ (ev'.act = "return" /\ ~ev'.sent))
        /\ ev'.op \in OverrideOps /\ cookie = <<>> /\ ev'.override \in {Undefined, <<>>})
       => /\ ev'.act = "return" /\ ~ev'.sent
          /\ ev'.res = Err(AuthRequired)
          /\ UNCHANGED <<cookie, loggedIn, cache, calls>>]_vars

\* a project-detail call was refused although a fresh entry is cached
C6_Witness ==
  /\ ev.act = "return" /\ ~ev.sent /\ ev.op = "getProjectDetail"
  /\ ev.res = Err(AuthRequired) /\ ev.override = <<>>
  /\ ev.pid \in DOMAIN cache
  /\ now - cache[ev.pid].timestamp < 300000

\* C21: a project-detail call that is not forced and finds a fresh entry of
\* its project returns that entry's record without a request whenever its
\* effective token is non-empty, whichever token that is; with an empty
\* effective token it fails with the authentication-required error, fresh
\* entry or not.
C21_LookupIgnoresCredential ==
  (IsCallStep /\ ev.op = "getProjectDetail") =>
     LET token == getEffectiveCookie(ev.override, cookie)
         fresh == ev.pid \in DOMAIN cache /\ IsFresh(cache[ev.pid], now)
     IN  /\ (Truthy(token) /\ ~ev.force /\ fresh) =>
               (ev.act = "return" /\ ~ev.sent /\ ev.res = Ok(cache[ev.pid].data))
         /\ ~Truthy(token) =>
               (ev.act = "return" /\ ~ev.sent /\ ev.res = Err(AuthRequired))

\* a call with an override was served from the cache while no token is stored
C21_Witness ==
  /\ IsCallStep /\ ev.op = "getProjectDetail" /\ ev.override = <<"b">>
  /\ cookie = <<>>
  /\ ev.pid \in DOMAIN cache /\ ev.res = Ok(cache[ev.pid].data) /\ ~ev.sent

----------------------------------------------------------------------------
(* Properties of the auto-login, under SpecLogin *)

TimedOutDone == lg.pc = "done" /\ lg.outcome = "error" /\ lg.err = LoginTimedOut

\* C7: when startLogin acquired a browser, the finished auto-login call has
\* closed it exactly once and isRunning() is false.
C7_ResourceRelease ==
  (lg.pc = "done" /\ lg.acquired) => (lg.closes = 1 /\ ~isRunning(lg))

\* C8 as claimed: the timeout is signalled no later than timeout plus one
\* polling interval after waitForLogin was entered.
C8_Original ==
  TimedOutDone => lg.doneAt - lg.entered <= LoginTimeout + LOGIN_CHECK_INTERVAL

\* C8: the timeout is signalled once `timeout` has elapsed since the polling
\* loop started, and less than one polling interval plus the last poll later:
\* the cookie-jar loop starts when waitForLogin is entered and its poll takes no
\* time, the probe loop starts after the grace wait and a probe takes up to its
\* request timeout.
C8_TimeoutBound ==
  TimedOutDone =>
    LET d == lg.doneAt - lg.startTime
    IN  /\ d >= LoginTimeout
        /\ lg.strategy = "jar" =>
             /\ lg.startTime = lg.entered
             /\ d < LoginTimeout + LOGIN_CHECK_INTERVAL
        /\ lg.strategy = "probe" =>
             /\ lg.startTime = lg.entered + GraceWait
             /\ d < LoginTimeout + LOGIN_CHECK_INTERVAL + ProbeTimeout

\* the probe loop timed out 132000 ms after waitForLogin was entered
C8_Witness ==
  TimedOutDone /\ lg.strategy = "probe" /\ lg.doneAt - lg.entered = 132000

\* C9: once waitForLogin runs, the call ends only with a token or with the
\* login timeout; a poll that fails does not end it.
C9_FailuresAbsorbed ==
  (lg.pc = "done" /\ lg.strategy # "none") =>
    (Truthy(lg.token) \/ lg.err = LoginTimedOut)

\* C10 as claimed: whenever a puppeteer step of startLogin fails, the attempt
\* goes on to the waiting phase.
C10_Original ==
  (lg.pc # "idle" /\ lg.fails # "none") => lg.strategy # "none"

\* C10: whenever a puppeteer step of startLogin fails, the system URL handler
\* is invoked; when that succeeds the attempt goes on to the waiting phase, and
\* when that fails too the call ends with the failed-to-open-browser error
\* without waiting.
C10_LaunchFallback ==
  (lg.pc # "idle" /\ lg.fails # "none") =>
    /\ lg.sys # "no"
    /\ lg.sys = "ok" => lg.strategy # "none"
    /\ lg.sys = "fail" =>
         /\ lg.pc = "done" /\ lg.strategy = "none"
         /\ lg.outcome = "error" /\ lg.err = OpenFailed

\* the launch failed, the system handler opened the page, the attempt waits
C10_Witness ==
  lg.fails = "launch" /\ lg.sys = "ok" /\ lg.pc = "grace"

\* C11: every started auto-login call comes to an end, the end is final, and
\* on the probe strategy a call that ends with an error ends with the login
\* timeout and holds no browser.
C11_Termination ==
  /\ (lg.pc # "idle") ~> (lg.pc = "done")
  /\ [][lg.pc = "done" => lg' = lg]_vars
  /\ []((lg.pc = "done" /\ lg.strategy = "probe" /\ lg.outcome = "error")
          => (lg.err = LoginTimedOut /\ ~isRunning(lg)))

\* without a browser the probe loop ran until the login timeout
C11_Witness ==
  TimedOutDone /\ lg.fails = "launch" /\ lg.strategy = "probe" /\ ~isRunning(lg)

\* C12: the step that ends an auto-login call with success stores the token it
\* obtained and the status is then logged in; every other step of the call,
\* its ending by timeout or failure included, leaves the stored token and the
\* flag as they were.
C12_LoginOutcomeStored ==
  [][lg' # lg =>
       IF lg'.pc = "done" /\ lg'.outcome = "success"
       THEN /\ cookie' = lg'.token
            /\ getLoginStatus(cookie', loggedIn') =
                 [t |-> "status", loggedIn |-> TRUE, hasCookie |-> TRUE]
       ELSE cookie' = cookie /\ loggedIn' = loggedIn]_vars

\* a call ended with success and its token is the stored one
C12_Witness ==
  lg.pc = "done" /\ lg.outcome = "success" /\ lg.token = <<"c">> /\ cookie = lg.token

\* C13: when the login tool has stored a non-empty token t, getCookie returns
\* t and the status is logged in with a cookie, whatever was stored before,
\* and the tool issued no request.
C13_LoginStoresToken ==
  (ev.op = "login" /\ Truthy(ev.arg)) =>
     /\ getCookie(cookie) = ev.arg
     /\ getLoginStatus(cookie, loggedIn) =
          [t |-> "status", loggedIn |-> TRUE, hasCookie |-> TRUE]
     /\ ev.res = Ok(getLoginStatus(cookie, loggedIn))
     /\ ~ev.sent

\* the login tool stored a token given with its cookie name
C13_Witness ==
  ev.op = "login" /\ ev.arg = <<EGG, "a">> /\ getCookie(cookie) = <<EGG, "a">>

\* C14: the stored token and the flag change only in a step of the login tool
\* or in the step that ends an auto-login call with success; service
\* operations, with or without an override, the status check, clearCache and
\* the clock leave both as they were.
C14_SessionFrame ==
  [][(cookie' # cookie \/ loggedIn' # loggedIn) =>
       \/ ev'.op = "login"
       \/ lg' # lg /\ lg'.pc = "done" /\ lg'.outcome = "success"]_vars

\* a request went out with an override while another token stayed stored
C14_Witness ==
  /\ ev.act = "send" /\ ev.override = <<"b">>
  /\ ev.hdr = <<EGG, "b">>
  /\ cookie = <<"a">> /\ loggedIn

\* C15: a step that changes the cache is either clearCache, which empties it,
\* or the return of a project-detail call whose request succeeded, which sets
\* the entry of its own project and leaves every other entry, capture time
\* included, as it was; no step removes a single entry, and a detail call
\* served from the cache changes nothing.
C15_CacheFrame ==
  [][cache' # cache =>
       \/ ev'.op = "clearCache" /\ cache' = EmptyMap
       \/ /\ ev'.op = "getProjectDetail" /\ ev'.act = "return" /\ ev'.sent
          /\ ~RemoteFailed(ev'.resp) /\ ev'.res.kind = "ok"
          /\ DOMAIN cache' = DOMAIN cache \cup {ev'.pid}
          /\ cache'[ev'.pid].data = ev'.res.val
          /\ \A x \in DOMAIN cache \ {ev'.pid} : cache'[x] = cache[x]]_vars

\* a detail call was served from the cache while another project's entry,
\* fetched at another time, was there as well
C15_Witness ==
  /\ ev.op = "getProjectDetail" /\ ev.act = "return" /\ ~ev.sent
  /\ ev.res.kind = "ok"
  /\ DOMAIN cache = Pids
  /\ \E x \in Pids : cache[x].timestamp # cache[ev.pid].timestamp

\* the operations C16 names
TranslatingOps == {"searchIcons", "getIconDetail", "listProjects",
                   "getProjectDetail", "searchProjectIcons"}

\* C16: when the request of one of these operations was answered 401 or 403
\* the operation fails with the authentication-failed error, and when the
\* request timed out it fails with the request-timed-out error.
C16_ErrorKinds ==
  (ev.act = "return" /\ ev.sent /\ ev.op \in TranslatingOps) =>
     /\ IsAuthStatus(ev.resp) => ev.res = Err(AuthFailed)
     /\ ev.resp.t = "timeout" => ev.res = Err(TimedOut)

\* C17: an auto-login call that waits uses the cookie-jar loop exactly when
\* startLogin acquired a browser, and never runs the probe loop while it holds
\* an open browser.
C17_StrategySelection ==
  lg.strategy # "none" =>
     /\ lg.strategy = "jar" <=> lg.acquired
     /\ lg.strategy = "probe" => ~isRunning(lg)

\* C22: when waitForLogin returned, it returned a non-empty token, and the
\* tool reports a login timeout only when the overall timeout has elapsed
\* since waitForLogin was entered.
C22_NonEmptyToken ==
  lg.pc = "done" =>
     /\ lg.outcome # "error" => Truthy(lg.token)
     /\ (lg.outcome = "timeoutText" \/ TimedOutDone) =>
           lg.doneAt - lg.entered >= LoginTimeout

----------------------------------------------------------------------------
(* Properties of overlapping calls, under SpecRace *)

\* C18: the entry a project-detail call has just written carries the clock
\* value of the moment it was written.
C18_CaptureTimeAtWrite ==
  (IsCompletion /\ ev.op = "getProjectDetail" /\ ev.res.kind = "ok") =>
     cache[ev.pid].timestamp = now

\* C19: the first project-detail call with a token after clearCache sends a
\* request, whatever completed between clearCache and the call.
C19_Invalidation ==
  [][(cleared /\ ev'.op = "getProjectDetail" /\ ev'.res # Err(AuthRequired)
        /\ (ev'.act = "send" \/ (ev'.act = "return" /\ ~ev'.sent)))
       => ev'.act = "send"]_vars

\* C20: however project-detail calls, login calls and clearCache overlap,
\* every entry of the cache is the record, update stamp and capture time of
\* one fetch of its own project; a completing fetch replaces the entry of its
\* project by exactly what it fetched and the time its call read, whatever
\* was there and whatever else is in flight; a login replaces the session by
\* the token it was given.
C20_LastWriterWins ==
  /\ [](\A p \in DOMAIN cache :
          /\ p \in Pids
          /\ cache[p].data = Detail(p, cache[p].updatedAt)
          /\ cache[p].timestamp <= now)
  /\ [][/\ (ev'.act = "return" /\ ev'.sent /\ ev'.op = "getProjectDetail"
              /\ ev'.res.kind = "ok")
             => \E s \in DOMAIN calls :
                  /\ calls[s].pc = "awaiting" /\ calls'[s].pc = "idle"
                  /\ cache'[ev'.pid] = [data |-> ev'.res.val,
                                        timestamp |-> calls[s].now,
                                        updatedAt |-> ev'.resp.ver]
        /\ ev'.op = "login" => (cookie' = ev'.arg /\ loggedIn')]_vars

\* a fetch completed and wrote its entry while an older fetch of the same
\* project, of another version, is still in flight
C20_Witness ==
  /\ IsCompletion /\ ev.op = "getProjectDetail" /\ ev.res.kind = "ok"
  /\ \E s \in DOMAIN calls :
       /\ calls[s].pc = "awaiting" /\ calls[s].pid = ev.pid
       /\ calls[s].now < cache[ev.pid].timestamp

====
